---------------------------- MODULE Spec2Model ----------------------------
(***************************************************************************)
(* A model of the BMP decoder of src/bmp.hpp (bmp::Reader::parse and the   *)
(* decoders it dispatches to).                                             *)
(*                                                                         *)
(* Numbers.  The decoder computes with uint32_t, int32_t and size_t        *)
(* (64 bits) values.  A machine word is modelled as the sequence of its    *)
(* bytes, least significant first ("limbs"): a uint32_t has 4 limbs, a     *)
(* size_t has 8.  All arithmetic on words wraps at the width of the word,  *)
(* as in C++.  Quantities bounded by the length of the input buffer        *)
(* (offsets into it, loop counters of a decode that stays inside it) are   *)
(* plain integers.                                                         *)
(***************************************************************************)
EXTENDS Integers, Sequences, FiniteSets, TLC

Byte == 0..255

Pow2(k) == 2^k

Min(a, b) == IF a < b THEN a ELSE b

\* the sequence f as an explicit tuple (the same value, evaluated once)
Tuple(f) == SubSeq(f, 1, Len(f))

\* the concatenation of a sequence of sequences
RECURSIVE Concat(_)
Concat(ss) == IF ss = <<>> THEN <<>> ELSE Head(ss) \o Concat(Tail(ss))

(* ---------------------------------------------------------------------- *)
(* Words as little-endian byte sequences                                  *)
(* ---------------------------------------------------------------------- *)

\* bit i (0 = least significant) of word a; 0 beyond its width
Bit(a, i) ==
    IF i < 0 \/ (i \div 8) + 1 > Len(a) THEN 0
    ELSE (a[(i \div 8) + 1] \div Pow2(i % 8)) % 2

\* the byte made of bits from .. from + 7 of word a
BitsByte(a, from) ==
    Bit(a, from) + 2 * Bit(a, from + 1) + 4 * Bit(a, from + 2)
    + 8 * Bit(a, from + 3) + 16 * Bit(a, from + 4) + 32 * Bit(a, from + 5)
    + 64 * Bit(a, from + 6) + 128 * Bit(a, from + 7)

\* bitwise and of two bytes
AndByte(x, y) ==
    LET b(i) == ((x \div Pow2(i)) % 2) * ((y \div Pow2(i)) % 2) IN
    b(0) + 2 * b(1) + 4 * b(2) + 8 * b(3) + 16 * b(4) + 32 * b(5)
    + 64 * b(6) + 128 * b(7)

\* zero-extension or truncation of a word to k limbs (a C++ integer
\* conversion between unsigned types)
Conv(a, k) == Tuple([j \in 1..k |-> IF j <= Len(a) THEN a[j] ELSE 0])

\* the k-limb word of a natural number n < 2^31
Word(n, k) ==
    Tuple([j \in 1..k |-> IF j <= 4 THEN (n \div Pow2(8*(j-1))) % 256 ELSE 0])

U32(n) == Word(n, 4)
U64(n) == Word(n, 8)

\* the 4-limb word with the given hexadecimal bytes, most significant first
Hex32(b3, b2, b1, b0) == <<b0, b1, b2, b3>>

IsZero(a) == \A j \in 1..Len(a) : a[j] = 0

\* whether the word's value is below 2^31, so that it is an integer here
Small(a) == \A j \in 1..Len(a) : (j > 4 => a[j] = 0) /\ (j = 4 => a[j] < 128)

\* the value of a Small word
Val(a) ==
    (IF Len(a) >= 1 THEN a[1] ELSE 0) + (IF Len(a) >= 2 THEN 256 * a[2] ELSE 0)
    + (IF Len(a) >= 3 THEN 65536 * a[3] ELSE 0)
    + (IF Len(a) >= 4 THEN 16777216 * a[4] ELSE 0)

\* unsigned comparison a < b of two words (of any widths)
RECURSIVE LtFrom(_, _, _)
LtFrom(a, b, j) ==
    IF j = 0 THEN FALSE
    ELSE LET x == IF j <= Len(a) THEN a[j] ELSE 0
             y == IF j <= Len(b) THEN b[j] ELSE 0
         IN IF x # y THEN x < y ELSE LtFrom(a, b, j - 1)

WLt(a, b) == LtFrom(a, b, IF Len(a) > Len(b) THEN Len(a) ELSE Len(b))
WLe(a, b) == ~WLt(b, a)
WEq(a, b) == ~WLt(a, b) /\ ~WLt(b, a)

\* a + b modulo 2^(8k), k = Len(a); b is converted to the width of a
WAdd(a, b) ==
    LET k == Len(a)
        bb == Conv(b, k)
        carry[j \in 0..k] ==
            IF j = 0 THEN 0 ELSE (a[j] + bb[j] + carry[j-1]) \div 256
    IN Tuple([j \in 1..k |-> (a[j] + bb[j] + carry[j-1]) % 256])

\* whether a + b overflows the width of a
WAddOverflows(a, b) ==
    LET k == Len(a)
        bb == Conv(b, k)
        carry[j \in 0..k] ==
            IF j = 0 THEN 0 ELSE (a[j] + bb[j] + carry[j-1]) \div 256
    IN carry[k] = 1

\* a * b modulo 2^(8k), k = Len(a); b is converted to the width of a
WMul(a, b) ==
    LET k == Len(a)
        bb == Conv(b, k)
        col[j \in 1..k] ==
            LET term[i \in 0..j] ==
                    IF i = 0 THEN 0 ELSE term[i-1] + a[i] * bb[j - i + 1]
            IN term[j]
        carry[j \in 0..k] ==
            IF j = 0 THEN 0 ELSE (col[j] + carry[j-1]) \div 256
    IN Tuple([j \in 1..k |-> (col[j] + carry[j-1]) % 256])

WShr(a, s) == Tuple([j \in 1..Len(a) |-> BitsByte(a, 8 * (j - 1) + s)])
WShl(a, s) == Tuple([j \in 1..Len(a) |-> BitsByte(a, 8 * (j - 1) - s)])
WAnd(a, b) == Tuple([j \in 1..Len(a) |-> AndByte(a[j], b[j])])
WOr(a, b)  == Tuple([j \in 1..Len(a) |-> a[j] + b[j] - AndByte(a[j], b[j])])
WNot(a)    == Tuple([j \in 1..Len(a) |-> 255 - a[j]])

\* two's complement negation at the width of a
WNeg(a) == WAdd(WNot(a), Word(1, Len(a)))

\* sign of a word read as a two's complement integer
IsNeg(a) == a[Len(a)] >= 128


(* ---------------------------------------------------------------------- *)
(* Byte readers (bmp.hpp, le16 / le32).  p is the buffer, o the 0-based   *)
(* offset of the first byte read.                                         *)
(* ---------------------------------------------------------------------- *)

\* a uint16_t, which always is an integer here
le16(p, o) == p[o + 1] + 256 * p[o + 2]

\* a uint32_t, as a 4-limb word
le32(p, o) == <<p[o + 1], p[o + 2], p[o + 3], p[o + 4]>>

\* int32_t(int16_t(v)) for a uint16_t v: sign extension to 32 bits
SignExt16(v) ==
    <<v % 256, v \div 256,
      IF v >= 32768 THEN 255 ELSE 0, IF v >= 32768 THEN 255 ELSE 0>>

(* ---------------------------------------------------------------------- *)
(* Enumerations                                                           *)
(* ---------------------------------------------------------------------- *)

BI_RGB            == U32(0)
BI_RLE8           == U32(1)
BI_RLE4           == U32(2)
BI_BITFIELDS      == U32(3)
BI_JPEG           == U32(4)
BI_PNG            == U32(5)
BI_ALPHABITFIELDS == U32(6)
BI_CMYK           == U32(11)
BI_CMYKRLE8       == U32(12)
BI_CMYKRLE4       == U32(13)

LCS_sRGB         == Hex32(115, 82, 71, 66)   \* 0x73524742
PROFILE_EMBEDDED == Hex32(77, 66, 69, 68)    \* 0x4D424544

DIBType == {"CORE_OS2_V1", "OS2_V2", "INFO", "V2", "V3", "V4", "V5"}
PixelFormat == {"RGBA8", "BGRA8", "BGR8", "Gray8", "RawBitfields"}

ZeroMasks == [r |-> U32(0), g |-> U32(0), b |-> U32(0), a |-> U32(0)]

\* Metadata m{} : the member initialisers of struct Metadata
Metadata0 ==
    [dib_type |-> "CORE_OS2_V1", width |-> U32(0), height |-> U32(0),
     planes |-> 1, bpp |-> 0, compression |-> BI_RGB,
     image_size |-> U32(0), ppm_x |-> U32(0), ppm_y |-> U32(0),
     color_used |-> U32(0), color_important |-> U32(0),
     has_masks |-> FALSE, masks |-> ZeroMasks,
     cstype |-> LCS_sRGB, endpoints |-> [k \in 1..9 |-> U32(0)],
     gamma_red |-> U32(0), gamma_green |-> U32(0), gamma_blue |-> U32(0),
     intent |-> 4, embedded_profile |-> <<>>,
     file_offset_pixels |-> U32(0), header_size |-> U32(0),
     file_size |-> U32(0)]

\* Metadata::top_down
top_down(m) == IsNeg(m.height)

\* Metadata::abs_height : uint32_t(-int64_t(height)) for a negative height
abs_height(m) == IF IsNeg(m.height) THEN WNeg(m.height) ELSE m.height

\* Image img{} : the member initialisers of struct Image.  pixels_len is
\* pixels.size(), a size_t; pixels holds the bytes when the decoder's reads
\* stayed inside the buffer.
Image0 ==
    [format |-> "RGBA8", pixels_len |-> U64(0), pixels |-> <<>>,
     raw_masks |-> ZeroMasks, raw_bits_per_pixel |-> 0]

(* ---------------------------------------------------------------------- *)
(* The state of one call of Reader::parse                                 *)
(*   pc        where the call is                                          *)
(*   err       the message of the ParseError thrown ("" when none)        *)
(*   m         the Metadata being filled (img.meta after dispatch)        *)
(*   palette   the palette read                                           *)
(*   pix_size  the length of the pixel region                             *)
(*   img       the Image being built                                      *)
(*   path      the decoder parse dispatched to ("" before dispatch)       *)
(*   rd        the end offset of the highest byte of the buffer read by   *)
(*             header and palette parsing                                 *)
(*   src_end   the end offset, relative to the pixel region, of the       *)
(*             highest source byte a decoder read (a size_t)              *)
(*   ub        whether a decoder read outside the buffer (undefined       *)
(*             behaviour: the pixel bytes are then unspecified)           *)
(*   rle       the cursor (x, y, i) of the RLE decoders, and the set wr   *)
(*             of the coordinates (x, y) of the pixels they have written  *)
(* ---------------------------------------------------------------------- *)

Rle0 == [x |-> 0, y |-> 0, i |-> 0, wr |-> {}]

State0 ==
    [pc |-> "file_header", err |-> "", m |-> Metadata0, palette |-> <<>>,
     pix_size |-> 0, img |-> Image0, path |-> "", rd |-> 0,
     src_end |-> U64(0), ub |-> FALSE, rle |-> Rle0]

Throw(s, msg) == [s EXCEPT !.pc = "error", !.err = msg]

MaxOf(a, b) == IF a > b THEN a ELSE b

\* Reader::parse, the BMP file header (14 bytes)
ParseFileHeaderOp(p, s) ==
    LET n == Len(p) IN
    IF n < 14 THEN Throw(s, "Truncated BMP header")
    ELSE IF p[1] # 66 \/ p[2] # 77
    THEN Throw([s EXCEPT !.rd = 2], "Not a BMP (missing 'BM')")
    ELSE LET file_size == le32(p, 2)
             off_bits  == le32(p, 10)
             t == [s EXCEPT !.rd = 14,
                            !.m.file_size = file_size,
                            !.m.file_offset_pixels = off_bits]
         IN IF WLt(U64(n), off_bits)
            THEN Throw(t, "Pixel data offset beyond file size")
            ELSE [t EXCEPT !.pc = "dib_header"]

\* Reader::parse, the fields common to the 40-byte header and its
\* extensions (also read from the 64-byte OS/2 v2 header)
InfoFields(p, m) ==
    [m EXCEPT !.width = le32(p, 14 + 4),
              !.height = le32(p, 14 + 8),
              !.planes = le16(p, 14 + 12),
              !.bpp = le16(p, 14 + 14),
              !.compression = le32(p, 14 + 16),
              !.image_size = le32(p, 14 + 20),
              !.ppm_x = le32(p, 14 + 24),
              !.ppm_y = le32(p, 14 + 28),
              !.color_used = le32(p, 14 + 32),
              !.color_important = le32(p, 14 + 36)]

\* a variant that takes the masks behind a 40-byte header without testing
\* that the buffer holds them (bytes past the end read as 0 here)
ReadMasksUnchecked(p, m, dib_size) ==
    LET mask(o) == IF o + 4 <= Len(p) THEN le32(p, o) ELSE U32(0)
        rgb == [m EXCEPT !.masks.r = mask(14 + 40),
                         !.masks.g = mask(14 + 44),
                         !.masks.b = mask(14 + 48),
                         !.has_masks = TRUE]
    IN
    IF m.compression # BI_BITFIELDS /\ m.compression # BI_ALPHABITFIELDS
    THEN [m |-> m, rd |-> 0]
    ELSE IF dib_size >= 56 \/ (dib_size < 52 /\ m.compression = BI_ALPHABITFIELDS)
    THEN [m |-> [rgb EXCEPT !.masks.a = mask(14 + 52)], rd |-> 14 + 56]
    ELSE [m |-> rgb, rd |-> 14 + 52]

\* Reader::parse, the bit masks of BI_BITFIELDS / BI_ALPHABITFIELDS: in the
\* header when dib_size >= 52, else behind the 40-byte header when the
\* buffer holds them.  Returns the metadata and the end of the bytes read.
ReadMasks(p, m, dib_size) ==
    LET n == Len(p)
        rgb == [m EXCEPT !.masks.r = le32(p, 14 + 40),
                         !.masks.g = le32(p, 14 + 44),
                         !.masks.b = le32(p, 14 + 48),
                         !.has_masks = TRUE]
    IN
    IF m.compression # BI_BITFIELDS /\ m.compression # BI_ALPHABITFIELDS
    THEN [m |-> m, rd |-> 0]
    ELSE IF dib_size >= 52
    THEN IF dib_size >= 56
         THEN [m |-> [rgb EXCEPT !.masks.a = le32(p, 14 + 52)], rd |-> 14 + 56]
         ELSE [m |-> rgb, rd |-> 14 + 52]
    ELSE IF 14 + dib_size + 12 <= n
    THEN IF m.compression = BI_ALPHABITFIELDS /\ 14 + dib_size + 16 <= n
         THEN [m |-> [rgb EXCEPT !.masks.a = le32(p, 14 + 52)], rd |-> 14 + 56]
         ELSE [m |-> rgb, rd |-> 14 + 52]
    ELSE [m |-> m, rd |-> 0]

\* Reader::parse, the V4 colour space fields
ReadV4(p, m) ==
    [m EXCEPT !.cstype = le32(p, 14 + 40),
              !.endpoints = [k \in 1..9 |-> le32(p, 14 + 40 + 4 * k)],
              !.gamma_red = le32(p, 14 + 80),
              !.gamma_green = le32(p, 14 + 84),
              !.gamma_blue = le32(p, 14 + 88)]

\* Reader::parse, the V5 intent and embedded profile.  start and end are
\* size_t; the profile is copied only when it lies inside the buffer.
ReadV5(p, m) ==
    LET n == Len(p)
        intent == le32(p, 14 + 92)
        profile_data == le32(p, 14 + 112)
        profile_size == le32(p, 14 + 116)
        start == WAdd(U64(14), profile_data)
        end == WAdd(start, profile_size)
        inside == WLe(start, U64(n)) /\ WLe(end, U64(n)) /\ WLe(start, end)
        prof == IF m.cstype = PROFILE_EMBEDDED /\ ~IsZero(profile_size) /\ inside
                THEN SubSeq(p, Val(start) + 1, Val(end))
                ELSE <<>>
        it == IF intent = U32(1) THEN 1
              ELSE IF intent = U32(2) THEN 2
              ELSE IF intent = U32(4) THEN 4
              ELSE IF intent = U32(8) THEN 8
              ELSE 4
    IN [m |-> [m EXCEPT !.embedded_profile = prof, !.intent = it],
        rd |-> IF prof = <<>> THEN 14 + 120 ELSE MaxOf(14 + 120, Val(end))]

\* the if / else-if chain that sets m.dib_type; without a final else, the
\* member keeps its initial value for any other size
DibTypeOf(dib_size) ==
    IF dib_size = 40 THEN "INFO"
    ELSE IF dib_size = 52 THEN "V2"
    ELSE IF dib_size = 56 THEN "V3"
    ELSE IF dib_size = 108 THEN "V4"
    ELSE IF dib_size = 124 THEN "V5"
    ELSE Metadata0.dib_type

\* the DIB header sizes parse accepts
\* a variant that takes every size from 40 up for the 40-byte header and
\* its extensions (dib_size >= 40 in place of the equalities)
AcceptedDibSizesFrom40 == {12, 16, 64} \cup (40..124)

AcceptedDibSizes == {12, 16, 40, 52, 56, 64, 108, 124}

\* Reader::parse, the DIB header dispatch
ParseDibHeaderOp(p, s) ==
    LET n == Len(p) IN
    IF n < 18 THEN Throw(s, "Missing DIB header size")
    ELSE
    LET dib_size == le32(p, 14)
        s1 == [s EXCEPT !.rd = 18, !.m.header_size = dib_size]
    IN
    IF WLt(U64(n), WAdd(dib_size, U32(14)))
    THEN Throw(s1, "Truncated DIB header")
    ELSE IF ~(Small(dib_size) /\ Val(dib_size) \in AcceptedDibSizes)
    THEN Throw(s1, "Unsupported or corrupt DIB header size")
    ELSE
    LET d == Val(dib_size) IN
    IF d = 12
    THEN [s1 EXCEPT !.pc = "validate", !.rd = 14 + 12,
                    !.m.dib_type = "CORE_OS2_V1",
                    !.m.width = SignExt16(le16(p, 14 + 4)),
                    !.m.height = SignExt16(le16(p, 14 + 6)),
                    !.m.planes = le16(p, 14 + 8),
                    !.m.bpp = le16(p, 14 + 10)]
    ELSE IF d = 64
    THEN [s1 EXCEPT !.pc = "validate", !.rd = 14 + 40,
                    !.m = [InfoFields(p, s1.m) EXCEPT !.dib_type = "OS2_V2"]]
    ELSE IF d = 16
    THEN [s1 EXCEPT !.pc = "validate", !.rd = 14 + 16,
                    !.m.dib_type = "OS2_V2",
                    !.m.width = le32(p, 14 + 4),
                    !.m.height = le32(p, 14 + 8),
                    !.m.planes = le16(p, 14 + 12),
                    !.m.bpp = le16(p, 14 + 14)]
    ELSE
    LET m0 == [InfoFields(p, s1.m) EXCEPT !.dib_type = DibTypeOf(d)]
        r1 == ReadMasks(p, m0, d)
        m2 == IF d >= 108 THEN ReadV4(p, r1.m) ELSE r1.m
        r3 == IF d >= 124 THEN ReadV5(p, m2) ELSE [m |-> m2, rd |-> 0]
        rd == MaxOf(MaxOf(14 + 40, r1.rd),
                    MaxOf(IF d >= 108 THEN 14 + 92 ELSE 0, r3.rd))
    IN [s1 EXCEPT !.pc = "validate", !.rd = rd, !.m = r3.m]

\* Reader::parse, the checks of planes, bpp, width and height
ValidateFieldsOp(s) ==
    IF s.m.planes = 0 THEN Throw(s, "Invalid planes")
    ELSE IF s.m.bpp = 0 THEN Throw(s, "Invalid bits-per-pixel")
    ELSE IF IsZero(s.m.width) \/ IsZero(s.m.height)
    THEN Throw(s, "Zero dimensions")
    ELSE [s EXCEPT !.pc = "palette"]

\* Reader::parse, the lambda default_palette_entries (a uint32_t)
default_palette_entries(m) ==
    IF m.dib_type = "CORE_OS2_V1"
    THEN IF m.bpp <= 8 THEN U32(Pow2(m.bpp)) ELSE U32(0)
    ELSE IF m.bpp <= 8
         THEN IF ~IsZero(m.color_used) THEN m.color_used ELSE U32(Pow2(m.bpp))
         ELSE m.color_used

\* std::min<uint32_t>(a, w) for an integer a and a word w
MinWithWord(a, w) == IF Small(w) /\ Val(w) < a THEN Val(w) ELSE a

\* Reader::parse, the palette between the header and the pixel data:
\* 3-byte entries for the OS/2 v1 header, 4-byte entries otherwise
ReadPaletteOp(p, s) ==
    LET m == s.m
        palette_offset == 14 + Val(m.header_size)
        off == Val(m.file_offset_pixels)
        dflt == default_palette_entries(m)
        avail == IF off > palette_offset THEN off - palette_offset ELSE 0
        esize == IF m.dib_type = "CORE_OS2_V1" THEN 3 ELSE 4
        cnt == IF ~IsZero(dflt) /\ avail > 0
               THEN MinWithWord(avail \div esize, dflt)
               ELSE 0
        entry(i) ==
            LET q == palette_offset + esize * (i - 1) IN
            [b |-> p[q + 1], g |-> p[q + 2], r |-> p[q + 3],
             a |-> IF esize = 3 THEN 0 ELSE p[q + 4]]
    IN [s EXCEPT !.pc = "dispatch",
                 !.palette = Tuple([i \in 1..cnt |-> entry(i)]),
                 !.rd = IF cnt > 0 THEN MaxOf(s.rd, palette_offset + esize * cnt)
                        ELSE s.rd]

Mask555  == [r |-> Hex32(0, 0, 124, 0), g |-> Hex32(0, 0, 3, 224),
             b |-> Hex32(0, 0, 0, 31), a |-> U32(0)]
Mask8888 == [r |-> Hex32(0, 255, 0, 0), g |-> Hex32(0, 0, 255, 0),
             b |-> Hex32(0, 0, 0, 255), a |-> Hex32(255, 0, 0, 0)]

\* a variant of the switch without the bpp tests on the RLE branches
\* (BI_RLE4 at 8 bpp and BI_RLE8 at 4 bpp are decoded)
DecoderForAnyRle(bpp, c) ==
    LET embedded == c = BI_PNG \/ c = BI_JPEG
        bitfields == c = BI_RGB \/ c = BI_BITFIELDS \/ c = BI_ALPHABITFIELDS
    IN
    IF bpp \in {1, 2, 4, 8}
    THEN IF c = BI_RGB THEN "indexed"
         ELSE IF c = BI_RLE8 THEN "rle8"
         ELSE IF c = BI_RLE4 THEN "rle4"
         ELSE IF embedded THEN "embedded"
         ELSE ""
    ELSE IF bpp = 16 \/ bpp = 32
    THEN IF bitfields THEN "bitfields"
         ELSE IF embedded THEN "embedded"
         ELSE ""
    ELSE IF bpp = 24
    THEN IF c = BI_RGB THEN "bgr24"
         ELSE IF embedded THEN "embedded"
         ELSE ""
    ELSE ""

\* Reader::parse, switch(m.bpp): the decoder for (bpp, compression), or ""
\* when the switch throws
DecoderFor(bpp, c) ==
    LET embedded == c = BI_PNG \/ c = BI_JPEG
        bitfields == c = BI_RGB \/ c = BI_BITFIELDS \/ c = BI_ALPHABITFIELDS
    IN
    IF bpp \in {1, 2, 4, 8}
    THEN IF c = BI_RGB THEN "indexed"
         ELSE IF c = BI_RLE8 /\ bpp = 8 THEN "rle8"
         ELSE IF c = BI_RLE4 /\ bpp = 4 THEN "rle4"
         ELSE IF embedded THEN "embedded"
         ELSE ""
    ELSE IF bpp = 16 \/ bpp = 32
    THEN IF bitfields THEN "bitfields"
         ELSE IF embedded THEN "embedded"
         ELSE ""
    ELSE IF bpp = 24
    THEN IF c = BI_RGB THEN "bgr24"
         ELSE IF embedded THEN "embedded"
         ELSE ""
    ELSE ""

\* Reader::parse, the message of the switch's throw
DispatchError(bpp) ==
    IF bpp \in {1, 2, 4, 8} THEN "Unsupported compression for indexed BMP"
    ELSE IF bpp = 16 THEN "Unsupported compression for 16bpp"
    ELSE IF bpp = 24 THEN "Unsupported compression for 24bpp"
    ELSE IF bpp = 32 THEN "Unsupported compression for 32bpp"
    ELSE "Unsupported bits-per-pixel"

\* Reader::parse, from the pixel region to the call of a decoder
DispatchOp(p, s) ==
    LET n == Len(p)
        m == s.m
    IN
    IF WLt(U64(n), m.file_offset_pixels)
    THEN Throw(s, "Pixel array offset beyond data")
    ELSE
    LET rest == n - Val(m.file_offset_pixels)
        pix_size == IF ~IsZero(m.image_size) /\ WLe(m.image_size, U64(rest))
                    THEN Val(m.image_size) ELSE rest
        dec == DecoderFor(m.bpp, m.compression)
        m1 == IF dec = "bitfields" /\ m.compression = BI_RGB
              THEN [m EXCEPT !.has_masks = TRUE,
                             !.masks = IF m.bpp = 16 THEN Mask555 ELSE Mask8888]
              ELSE m
        s1 == [s EXCEPT !.pix_size = pix_size, !.m = m1]
    IN IF dec = "" THEN Throw(s1, DispatchError(m.bpp))
       ELSE [s1 EXCEPT !.pc = dec, !.path = dec]

\* a variant without the rounding up to a multiple of 4
row_stride_unaligned(width, bpp) ==
    LET bits == WMul(Conv(width, 8), U64(bpp))
    IN Conv(WShr(WAdd(bits, U64(7)), 3), 4)

\* Reader::row_stride_aligned(uint32_t width, uint16_t bpp) : uint32_t
row_stride_aligned(width, bpp) ==
    LET bits == WMul(Conv(width, 8), U64(bpp))
        bytes == Conv(WShr(WAdd(bits, U64(7)), 3), 4)
    IN WAnd(WAdd(bytes, U32(3)), WNot(U32(3)))

\* W in the decoders: m.width < 0 ? uint32_t(-m.width) : uint32_t(m.width)
abs_width(m) == IF IsNeg(m.width) THEN WNeg(m.width) ELSE m.width

(* ---------------------------------------------------------------------- *)
(* The uncompressed decoders.  Each computes W, H, the stride and the     *)
(* bytes needed, throws when the pixel region is shorter, sizes the       *)
(* output and then reads, for each row, the bytes of the row from         *)
(* pix + row * stride.                                                    *)
(* ---------------------------------------------------------------------- *)

\* what the decoders compute before their row loop.  row_bytes is the
\* extent of the source bytes one row reads, src_end the end of the reads of
\* the last row, both relative to the pixel region and in size_t.
Geometry(s, stride, row_bytes, out_bpp) ==
    LET W == abs_width(s.m)
        H == abs_height(s.m)
    IN [W |-> W, H |-> H, stride |-> stride,
        needed |-> WMul(Conv(stride, 8), H),
        alloc |-> WMul(WMul(Conv(W, 8), H), U64(out_bpp)),
        src_end |-> WAdd(WMul(Conv(WAdd(H, WNeg(U32(1))), 8), stride), row_bytes)]

\* whether every source byte the row loop reads lies inside the buffer
InBuffer(p, s, g) ==
    /\ ~WAddOverflows(g.src_end, s.m.file_offset_pixels)
    /\ WLe(WAdd(g.src_end, s.m.file_offset_pixels), U64(Len(p)))

\* The outcomes of a row loop that reads outside the buffer.  The output
\* vector is sized first (std::bad_alloc when the allocation fails); the
\* read is undefined behaviour: the process is killed, or the loop goes on
\* with whatever the memory holds.
OutOfBufferOutcomes == {"bad_alloc", "crash", "garbage"}

OutOfBuffer(s, g, fmt, ch) ==
    LET t == [s EXCEPT !.img.format = fmt, !.img.pixels_len = g.alloc] IN
    IF ch = "bad_alloc" THEN [(Throw(s, "std::bad_alloc")) EXCEPT !.img.format = fmt]
    ELSE IF ch = "crash"
    THEN [t EXCEPT !.pc = "crash", !.ub = TRUE, !.src_end = g.src_end]
    ELSE [t EXCEPT !.pc = "done", !.ub = TRUE, !.src_end = g.src_end]

\* decode_indexed_uncompressed, the palette index of pixel x taken from the
\* byte that holds it: most significant bits first
IndexAt(byte, x, bpp) ==
    IF bpp = 8 THEN byte
    ELSE IF bpp = 4
    THEN IF x % 2 = 0 THEN (byte \div 16) % 16 ELSE byte % 16
    ELSE IF bpp = 2
    THEN (byte \div Pow2(6 - 2 * (x % 4))) % 4
    ELSE (byte \div Pow2(7 - (x % 8))) % 2

\* a variant that remaps an index past the palette to the last entry
PaletteAtClampLast(palette, idx) ==
    IF idx >= Len(palette) THEN palette[Len(palette)] ELSE palette[idx + 1]

\* the lambdas put_px / put: the palette entry written for index idx
PaletteAt(palette, idx) ==
    IF idx >= Len(palette) THEN palette[1] ELSE palette[idx + 1]

EntryByte(pe, c) ==
    IF c = 0 THEN pe.b ELSE IF c = 1 THEN pe.g ELSE IF c = 2 THEN pe.r ELSE pe.a

\* a variant that takes every image as bottom-up
SrcRowBottomUp(m, H, y) == H - 1 - y

\* the source row written to output row y
SrcRow(m, H, y) == IF top_down(m) THEN y ELSE H - 1 - y

\* Reader::decode_indexed_uncompressed
DecodeIndexedOp(p, s, ch) ==
    IF s.palette = <<>> THEN Throw(s, "Missing palette for indexed BMP")
    ELSE
    LET m == s.m
        bpp == m.bpp
        W == abs_width(m)
        stride == row_stride_aligned(W, bpp)
        row_bytes == WShr(WAdd(WMul(Conv(W, 8), U64(bpp)), U64(7)), 3)
        g == Geometry(s, stride, row_bytes, 4)
    IN
    IF WLt(U64(s.pix_size), g.needed) THEN Throw(s, "Pixel data truncated")
    ELSE IF ~InBuffer(p, s, g) THEN OutOfBuffer(s, g, "BGRA8", ch)
    ELSE
    LET w == Val(g.W)
        h == Val(g.H)
        st == Val(stride)
        off == Val(m.file_offset_pixels)
        px(k) ==
            LET q == k \div 4
                x == q % w
                y == q \div w
                row == SrcRow(m, h, y)
                byte == p[off + row * st + (x * bpp) \div 8 + 1]
            IN EntryByte(PaletteAt(s.palette, IndexAt(byte, x, bpp)), k % 4)
    IN [s EXCEPT !.pc = "done", !.src_end = g.src_end,
                 !.img.format = "BGRA8", !.img.pixels_len = g.alloc,
                 !.img.pixels = Tuple([k \in 1..(w * h * 4) |-> px(k - 1)])]

\* Reader::decode_bgr24
DecodeBgr24Op(p, s, ch) ==
    LET m == s.m
        W == abs_width(m)
        stride == row_stride_aligned(W, 24)
        row_bytes == WMul(Conv(W, 8), U64(3))
        g == Geometry(s, stride, row_bytes, 3)
    IN
    IF WLt(U64(s.pix_size), g.needed) THEN Throw(s, "Pixel data truncated")
    ELSE IF ~InBuffer(p, s, g) THEN OutOfBuffer(s, g, "BGR8", ch)
    ELSE
    LET w == Val(g.W)
        h == Val(g.H)
        st == Val(stride)
        off == Val(m.file_offset_pixels)
        px(k) ==
            LET y == k \div (w * 3)
                row == SrcRow(m, h, y)
            IN p[off + row * st + (k % (w * 3)) + 1]
    IN [s EXCEPT !.pc = "done", !.src_end = g.src_end,
                 !.img.format = "BGR8", !.img.pixels_len = g.alloc,
                 !.img.pixels = Tuple([k \in 1..(w * h * 3) |-> px(k - 1)])]

\* Reader::bit_extract_norm, the two counting loops
RECURSIVE TrailingZeros(_, _)
TrailingZeros(mask, shift) ==
    IF Bit(mask, shift) = 0 THEN TrailingZeros(mask, shift + 1) ELSE shift

\* (the loop shifts a copy of the mask right by one per round and tests its
\* bit 0: bit shift + width of the mask)
RECURSIVE LowOnes(_, _, _)
LowOnes(mask, shift, width) ==
    IF Bit(mask, shift + width) = 1 THEN LowOnes(mask, shift, width + 1) ELSE width

\* Reader::bit_extract_norm, the bit replication loop
RECURSIVE Replicate(_, _, _)
Replicate(x, comp, width) ==
    IF width < 8
    THEN Replicate(WOr(WShl(x, width), comp), comp, 2 * width)
    ELSE x

\* Reader::bit_extract_norm(uint32_t v, uint32_t mask) : uint8_t
bit_extract_norm(v, mask) ==
    IF IsZero(mask) THEN 0
    ELSE
    LET shift == TrailingZeros(mask, 0)
        width == LowOnes(mask, shift, 0)
        comp == WShr(WAnd(v, mask), shift)
    IN IF width >= 8 THEN WShr(comp, width - 8)[1]
       ELSE IF width = 0 THEN 0
       ELSE Replicate(comp, comp, width)[1]

\* Reader::decode_bitfields, the test for an 8-bit-per-channel layout
looks8(masks) ==
    \/ masks.r = Hex32(0, 255, 0, 0) /\ masks.g = Hex32(0, 0, 255, 0)
       /\ masks.b = Hex32(0, 0, 0, 255)
    \/ masks.r = Hex32(0, 0, 0, 255) /\ masks.g = Hex32(0, 0, 255, 0)
       /\ masks.b = Hex32(0, 255, 0, 0)

\* Reader::decode_bitfields, one output pixel (B, G, R, A) of the BGRA8 path
BitfieldPixel(v, masks) ==
    <<bit_extract_norm(v, masks.b), bit_extract_norm(v, masks.g),
      bit_extract_norm(v, masks.r),
      IF ~IsZero(masks.a) THEN bit_extract_norm(v, masks.a) ELSE 255>>

\* Reader::decode_bitfields; bytes_per_pixel is 2 or 4 (m.bpp / 8)
DecodeBitfieldsOp(p, s, ch) ==
    LET m == s.m
        bytes_per_pixel == m.bpp \div 8
        W == abs_width(m)
        stride == row_stride_aligned(W, bytes_per_pixel * 8)
        masks == IF m.has_masks THEN m.masks ELSE Mask8888
        l8 == looks8(masks)
        \* the BGRA8 path reads at src + x * bytes_per_pixel with the product
        \* taken in uint32_t; the raw path copies size_t(W) * bytes_per_pixel
        full == WMul(Conv(W, 8), U64(bytes_per_pixel))
        row_bytes == IF l8 /\ ~Small(WShr(full, 1))
                     THEN <<0, 0, 0, 0, 1, 0, 0, 0>> ELSE full
        g == Geometry(s, stride, row_bytes, IF l8 THEN 4 ELSE bytes_per_pixel)
        fmt == IF l8 THEN "BGRA8" ELSE "RawBitfields"
        s1 == IF l8 THEN s
              ELSE [s EXCEPT !.img.raw_masks = masks,
                             !.img.raw_bits_per_pixel = (bytes_per_pixel * 8) % 256]
    IN
    IF WLt(U64(s.pix_size), g.needed) THEN Throw(s, "Pixel data truncated")
    ELSE IF ~InBuffer(p, s, g) THEN OutOfBuffer(s1, g, fmt, ch)
    ELSE
    LET w == Val(g.W)
        h == Val(g.H)
        st == Val(stride)
        off == Val(m.file_offset_pixels)
        px8(q) ==
            LET x == q % w
                row == SrcRow(m, h, q \div w)
                at == off + row * st + x * bytes_per_pixel
                v == IF bytes_per_pixel = 2 THEN U32(le16(p, at)) ELSE le32(p, at)
            IN BitfieldPixel(v, masks)
        raw(k) ==
            LET y == k \div (w * bytes_per_pixel)
                row == SrcRow(m, h, y)
            IN p[off + row * st + (k % (w * bytes_per_pixel)) + 1]
    IN [s1 EXCEPT !.pc = "done", !.src_end = g.src_end,
                  !.img.format = fmt, !.img.pixels_len = g.alloc,
                  !.img.pixels =
                      IF l8 THEN Concat(Tuple([q \in 1..(w * h) |-> px8(q - 1)]))
                      ELSE Tuple([k \in 1..(w * h * bytes_per_pixel) |-> raw(k - 1)])]

\* Reader::expose_embedded_stream
ExposeEmbeddedOp(p, s) ==
    LET off == Val(s.m.file_offset_pixels) IN
    [s EXCEPT !.pc = "done", !.src_end = U64(s.pix_size),
              !.img.format = "RawBitfields",
              !.img.pixels = SubSeq(p, off + 1, off + s.pix_size),
              !.img.pixels_len = U64(s.pix_size),
              !.img.raw_masks = ZeroMasks,
              !.img.raw_bits_per_pixel = 0]

(* ---------------------------------------------------------------------- *)
(* The RLE decoders.  decode_rle8 and decode_rle4 size the output, zero   *)
(* it, and run a loop over the compressed stream; one iteration of the    *)
(* loop is one step here.  The cursor is s.rle = (x, y, i).               *)
(* ---------------------------------------------------------------------- *)

\* the largest output, in bytes, the model allocates for an RLE image: a
\* larger pixels.assign throws std::bad_alloc
MaxAlloc == 64

RleW(s) == Val(abs_width(s.m))
RleH(s) == Val(abs_height(s.m))

\* decode_rle8 / decode_rle4 up to the loop: the palette check and
\* img.pixels.assign(size_t(W) * H * 4u, 0)
RleBeginOp(s, msg, loop) ==
    IF s.palette = <<>> THEN Throw(s, msg)
    ELSE
    LET alloc == WMul(WMul(Conv(abs_width(s.m), 8), abs_height(s.m)), U64(4)) IN
    IF ~Small(alloc) \/ Val(alloc) > MaxAlloc
    THEN [(Throw(s, "std::bad_alloc")) EXCEPT !.img.format = "BGRA8"]
    ELSE [s EXCEPT !.pc = loop, !.rle = Rle0,
                   !.img.format = "BGRA8", !.img.pixels_len = alloc,
                   !.img.pixels = Tuple([k \in 1..Val(alloc) |-> 0])]

\* a variant of put without the test of x and y against W and H
RlePutUnclipped(c, W, H, yy, idx, palette) ==
    LET pe == PaletteAt(palette, idx)
        off == (yy * W + c.x) * 4
    IN [c EXCEPT !.pixels = Tuple([k \in 1..Len(c.pixels) |->
                                IF k - 1 >= off /\ k - 1 < off + 4
                                THEN EntryByte(pe, k - 1 - off)
                                ELSE c.pixels[k]]),
                 !.wr = c.wr \cup {<<c.x, yy>>}]

\* the lambda put(x, y, idx) of the RLE decoders, on c = (x, y, pixels, wr):
\* writes the palette entry of idx at (c.x, yy), clipped to the image
RlePut(c, W, H, yy, idx, palette) ==
    IF c.x >= W \/ yy >= H \/ yy < 0 THEN c
    ELSE LET pe == PaletteAt(palette, idx)
             off == (yy * W + c.x) * 4
         IN [c EXCEPT !.pixels = Tuple([k \in 1..Len(c.pixels) |->
                                     IF k - 1 >= off /\ k - 1 < off + 4
                                     THEN EntryByte(pe, k - 1 - off)
                                     ELSE c.pixels[k]]),
                      !.wr = c.wr \cup {<<c.x, yy>>}]

\* The pixel loops of the RLE decoders (an encoded run, an absolute run):
\*   for k < Len(idxs): put(x++, yy, idxs[k]);
\*                      if (x >= W) { y++; x = 0; if (y >= H) break; }
\* Returns the cursor and the number of pixels put before the loop ended.
RECURSIVE RleEmit(_, _, _, _, _, _, _)
RleEmit(c, W, H, td, idxs, palette, k) ==
    IF k > Len(idxs) THEN [c |-> c, put |-> k - 1]
    ELSE
    LET yy == IF td THEN c.y ELSE H - 1 - c.y
        c1 == RlePut(c, W, H, yy, idxs[k], palette)
        c2 == [c1 EXCEPT !.x = c.x + 1]
    IN IF c2.x >= W
       THEN LET c3 == [c2 EXCEPT !.y = c2.y + 1, !.x = 0] IN
            IF c3.y >= H THEN [c |-> c3, put |-> k]
            ELSE RleEmit(c3, W, H, td, idxs, palette, k + 1)
       ELSE RleEmit(c2, W, H, td, idxs, palette, k + 1)

RleCursor(s) ==
    [x |-> s.rle.x, y |-> s.rle.y, pixels |-> s.img.pixels, wr |-> s.rle.wr]

\* the state after a loop iteration that ended with cursor c, input index i
RleNext(s, c, i) ==
    [s EXCEPT !.rle = [x |-> c.x, y |-> c.y, i |-> i, wr |-> c.wr],
              !.img.pixels = c.pixels,
              !.src_end = IF WLt(s.src_end, U64(i)) THEN U64(i) ELSE s.src_end]

\* a variant that throws when the loop ends because the input ran out
RleStopStrict(s, c, i) ==
    IF i >= s.pix_size /\ c.y < RleH(s)
    THEN Throw(RleNext(s, c, i), "RLE data truncated")
    ELSE [(RleNext(s, c, i)) EXCEPT !.pc = "done"]

\* a break out of the loop (or its condition failing): the decoder returns
RleStop(s, c, i) == [(RleNext(s, c, i)) EXCEPT !.pc = "done"]

\* Reader::decode_rle8, one iteration of while (i < pix_size && y < H)
Rle8StepOp(p, s) ==
    LET W == RleW(s)
        H == RleH(s)
        td == top_down(s.m)
        off == Val(s.m.file_offset_pixels)
        n == s.pix_size
        pix(j) == p[off + j + 1]
        c == RleCursor(s)
        i == s.rle.i
    IN
    IF ~(i < n /\ c.y < H) THEN RleStop(s, c, i)
    ELSE
    LET count == pix(i) IN
    IF count # 0
    THEN IF i + 1 >= n THEN RleStop(s, c, i + 1)
         ELSE LET r == RleEmit(c, W, H, td, [k \in 1..count |-> pix(i + 1)],
                               s.palette, 1)
              IN RleNext(s, r.c, i + 2)
    ELSE IF i + 1 >= n THEN RleStop(s, c, i + 1)
    ELSE
    LET cmd == pix(i + 1) IN
    IF cmd = 0 THEN RleNext(s, [c EXCEPT !.y = c.y + 1, !.x = 0], i + 2)
    ELSE IF cmd = 1 THEN RleStop(s, c, i + 2)
    ELSE IF cmd = 2
    THEN IF i + 2 + 1 >= n THEN RleStop(s, c, i + 2)
         ELSE LET x1 == c.x + pix(i + 2)
                  y1 == c.y + pix(i + 3)
              IN RleNext(s, [c EXCEPT !.x = IF x1 >= W THEN W ELSE x1,
                                      !.y = IF y1 >= H THEN H ELSE y1], i + 4)
    ELSE IF i + 2 + cmd > n THEN RleStop(s, c, i + 2)
    ELSE LET r == RleEmit(c, W, H, td, [k \in 1..cmd |-> pix(i + 2 + k - 1)],
                          s.palette, 1)
             i1 == i + 2 + r.put
         IN RleNext(s, r.c, IF cmd % 2 = 1 /\ i1 < n THEN i1 + 1 ELSE i1)

\* Reader::decode_rle4, one iteration of while (i < pix_size && y < H)
Rle4StepOp(p, s) ==
    LET W == RleW(s)
        H == RleH(s)
        td == top_down(s.m)
        off == Val(s.m.file_offset_pixels)
        n == s.pix_size
        pix(j) == p[off + j + 1]
        c == RleCursor(s)
        i == s.rle.i
    IN
    IF ~(i < n /\ c.y < H) THEN RleStop(s, c, i)
    ELSE
    LET count == pix(i) IN
    IF count # 0
    THEN IF i + 1 >= n THEN RleStop(s, c, i + 1)
         ELSE LET byte == pix(i + 1)
                  hi == (byte \div 16) % 16
                  lo == byte % 16
                  r == RleEmit(c, W, H, td,
                               [k \in 1..count |-> IF (k - 1) % 2 = 1 THEN lo ELSE hi],
                               s.palette, 1)
              IN RleNext(s, r.c, i + 2)
    ELSE IF i + 1 >= n THEN RleStop(s, c, i + 1)
    ELSE
    LET cmd == pix(i + 1) IN
    IF cmd = 0 THEN RleNext(s, [c EXCEPT !.y = c.y + 1, !.x = 0], i + 2)
    ELSE IF cmd = 1 THEN RleStop(s, c, i + 2)
    ELSE IF cmd = 2
    THEN IF i + 2 + 1 >= n THEN RleStop(s, c, i + 2)
         ELSE RleNext(s, [c EXCEPT !.x = c.x + pix(i + 2),
                                   !.y = c.y + pix(i + 3)], i + 4)
    ELSE
    LET bytes == (cmd + 1) \div 2 IN
    IF i + 2 + bytes > n THEN RleStop(s, c, i + 2)
    ELSE LET nib(k) == IF k % 2 = 1 THEN pix(i + 2 + k \div 2) % 16
                       ELSE (pix(i + 2 + k \div 2) \div 16) % 16
             r == RleEmit(c, W, H, td, [k \in 1..cmd |-> nib(k - 1)],
                          s.palette, 1)
             i1 == i + 2 + bytes
         IN RleNext(s, r.c, IF bytes % 2 = 1 /\ i1 < n THEN i1 + 1 ELSE i1)

(* ---------------------------------------------------------------------- *)
(* The call: Reader r(data, size); r.parse()                              *)
(* ---------------------------------------------------------------------- *)

VARIABLES p_, pc, err, m, palette, pix_size, img, path, rd, src_end, ub, rle

vars == <<p_, pc, err, m, palette, pix_size, img, path, rd, src_end, ub, rle>>

\* Reader::n_
n_ == Len(p_)

Cur ==
    [pc |-> pc, err |-> err, m |-> m, palette |-> palette,
     pix_size |-> pix_size, img |-> img, path |-> path, rd |-> rd,
     src_end |-> src_end, ub |-> ub, rle |-> rle]

Becomes(t) ==
    /\ pc' = t.pc
    /\ err' = t.err
    /\ m' = t.m
    /\ palette' = t.palette
    /\ pix_size' = t.pix_size
    /\ img' = t.img
    /\ path' = t.path
    /\ rd' = t.rd
    /\ src_end' = t.src_end
    /\ ub' = t.ub
    /\ rle' = t.rle
    /\ UNCHANGED p_

ParseFileHeader == pc = "file_header" /\ Becomes(ParseFileHeaderOp(p_, Cur))

ParseDibHeader == pc = "dib_header" /\ Becomes(ParseDibHeaderOp(p_, Cur))

ValidateFields == pc = "validate" /\ Becomes(ValidateFieldsOp(Cur))

ReadPalette == pc = "palette" /\ Becomes(ReadPaletteOp(p_, Cur))

Dispatch == pc = "dispatch" /\ Becomes(DispatchOp(p_, Cur))

DecodeIndexedUncompressed ==
    /\ pc = "indexed"
    /\ \E ch \in OutOfBufferOutcomes : Becomes(DecodeIndexedOp(p_, Cur, ch))

DecodeBgr24 ==
    /\ pc = "bgr24"
    /\ \E ch \in OutOfBufferOutcomes : Becomes(DecodeBgr24Op(p_, Cur, ch))

DecodeBitfields ==
    /\ pc = "bitfields"
    /\ \E ch \in OutOfBufferOutcomes : Becomes(DecodeBitfieldsOp(p_, Cur, ch))

ExposeEmbeddedStream == pc = "embedded" /\ Becomes(ExposeEmbeddedOp(p_, Cur))

DecodeRle8Begin ==
    pc = "rle8" /\ Becomes(RleBeginOp(Cur, "Missing palette for RLE8", "rle8_loop"))

DecodeRle8Step == pc = "rle8_loop" /\ Becomes(Rle8StepOp(p_, Cur))

DecodeRle4Begin ==
    pc = "rle4" /\ Becomes(RleBeginOp(Cur, "Missing palette for RLE4", "rle4_loop"))

DecodeRle4Step == pc = "rle4_loop" /\ Becomes(Rle4StepOp(p_, Cur))

\* one step of the call from state s, as a function (an out-of-buffer read
\* resolved as ch)
StepOp(p, s, ch) ==
    CASE s.pc = "file_header" -> ParseFileHeaderOp(p, s)
      [] s.pc = "dib_header" -> ParseDibHeaderOp(p, s)
      [] s.pc = "validate" -> ValidateFieldsOp(s)
      [] s.pc = "palette" -> ReadPaletteOp(p, s)
      [] s.pc = "dispatch" -> DispatchOp(p, s)
      [] s.pc = "indexed" -> DecodeIndexedOp(p, s, ch)
      [] s.pc = "bgr24" -> DecodeBgr24Op(p, s, ch)
      [] s.pc = "bitfields" -> DecodeBitfieldsOp(p, s, ch)
      [] s.pc = "embedded" -> ExposeEmbeddedOp(p, s)
      [] s.pc = "rle8" -> RleBeginOp(s, "Missing palette for RLE8", "rle8_loop")
      [] s.pc = "rle8_loop" -> Rle8StepOp(p, s)
      [] s.pc = "rle4" -> RleBeginOp(s, "Missing palette for RLE4", "rle4_loop")
      [] s.pc = "rle4_loop" -> Rle4StepOp(p, s)

Returned == {"done", "error", "crash"}

\* Reader::parse as a function of the buffer: the state in which it returns
\* an Image ("done") or throws ("error")
RECURSIVE Run(_, _)
Run(p, s) == IF s.pc \in Returned THEN s ELSE Run(p, StepOp(p, s, "crash"))

parse(p) == Run(p, State0)

(* ---------------------------------------------------------------------- *)
(* The input buffers.  A buffer is laid out from a description f of its   *)
(* fields, as a BMP writer would lay it out, and may then be cut short.   *)
(* ---------------------------------------------------------------------- *)

\* bounds of the enumerated inputs
MaxDim == 2        \* widths and heights of the decodable images: 1..MaxDim
MaxSeed == 2       \* pixel data patterns: 0..MaxSeed
MaxRleTokens == 2  \* codes per enumerated RLE stream: 0..MaxRleTokens

Put16(v) == <<v % 256, v \div 256>>

Zeros(k) == Tuple([j \in 1..k |-> 0])

I32(v) == IF v < 0 THEN WNeg(U32(-v)) ELSE U32(v)

\* entry k (from 0) of the palettes written: no entry is all zero
PalEntry(k, esize) ==
    Tuple([c \in 1..esize |-> (16 * (k + 1) + c) % 256])

PatBytes == <<0, 1, 27, 255, 128, 16, 35, 228>>

\* k bytes of pixel data, pattern number seed
Pattern(seed, k) ==
    Tuple([j \in 1..k |-> PatBytes[((seed + j - 1) % Len(PatBytes)) + 1]])

\* the bytes an uncompressed image of w x h pixels at bpp occupies
StrideOf(w, bpp) == ((w * bpp + 31) \div 32) * 4

Base ==
    [core |-> FALSE, dib_size |-> U32(40), hdr_len |-> 40,
     width |-> U32(1), height |-> U32(1), planes |-> 1, bpp |-> 24,
     compression |-> BI_RGB, image_size |-> U32(0), color_used |-> U32(0),
     masks |-> <<U32(0), U32(0), U32(0), U32(0)>>, trail |-> 0,
     intent |-> U32(0), profile_data |-> U32(0), profile_size |-> U32(0),
     npal |-> 0, data |-> <<>>, cut |-> -1]

HeaderBytes(f) ==
    IF f.core
    THEN f.dib_size \o SubSeq(f.width, 1, 2) \o SubSeq(f.height, 1, 2)
         \o Put16(f.planes) \o Put16(f.bpp)
    ELSE LET full ==
                 f.dib_size \o f.width \o f.height \o Put16(f.planes)
                 \o Put16(f.bpp) \o f.compression \o f.image_size
                 \o U32(2835) \o U32(2835) \o f.color_used \o U32(0)
                 \o f.masks[1] \o f.masks[2] \o f.masks[3] \o f.masks[4]
                 \o Zeros(36) \o f.intent \o Zeros(16)
                 \o f.profile_data \o f.profile_size \o Zeros(4)
         IN SubSeq(full, 1, f.hdr_len)

Bmp(f) ==
    LET hdr == HeaderBytes(f)
        trail == SubSeq(f.masks[1] \o f.masks[2] \o f.masks[3] \o f.masks[4],
                        1, f.trail)
        esize == IF f.core THEN 3 ELSE 4
        pal == Concat([k \in 1..f.npal |-> PalEntry(k - 1, esize)])
        body == hdr \o trail \o pal
        off == 14 + Len(body)
        full == <<66, 77>> \o U32(off + Len(f.data)) \o U32(0) \o U32(off)
                \o body \o f.data
    IN IF f.cut >= 0 THEN SubSeq(full, 1, Min(f.cut, Len(full))) ELSE full

Dims == 1..MaxDim
SignedDims == {d \in (-MaxDim)..MaxDim : d # 0}
Bpps == {1, 2, 4, 8, 16, 24, 32}

\* images with pixel data of the size their header asks for
Image(f, w, h, bpp, seed) ==
    [f EXCEPT !.width = I32(w), !.height = I32(h), !.bpp = bpp,
              !.data = Pattern(seed, StrideOf(IF w < 0 THEN -w ELSE w, bpp)
                                     * (IF h < 0 THEN -h ELSE h))]

\* the header kinds: every accepted DIB header size
Kinds ==
    {[Base EXCEPT !.core = TRUE, !.dib_size = U32(12), !.hdr_len = 12]}
    \cup {[Base EXCEPT !.dib_size = U32(d), !.hdr_len = d] :
             d \in {16, 40, 52, 56, 64, 108, 124}}

Compressions == {U32(c) : c \in {0, 1, 2, 3, 4, 5, 6, 7, 11, 12, 13}}

\* (bpp, compression) pairs under three header kinds
DispatchInputs ==
    {[(Image(k, 1, h, bpp, 0)) EXCEPT !.compression = c, !.npal = 2] :
        k \in {k \in Kinds : k.hdr_len \in {12, 40, 64}}, h \in {1, -1},
        bpp \in Bpps \cup {0, 3, 64}, c \in Compressions}

\* the validated fields: planes, bpp, width, height
FieldInputs ==
    {[(Image(k, w, h, bpp, 1)) EXCEPT !.planes = pl, !.compression = c] :
        k \in Kinds, pl \in {0, 1, 2}, bpp \in {0, 24},
        w \in {0, 1, -1, -MaxDim}, h \in {0, 1, -1},
        c \in {BI_RGB, BI_PNG}}

\* declared DIB header sizes, accepted or not, in buffers of several lengths
DibSizes ==
    {U32(d) : d \in {0, 12, 13, 16, 20, 39, 40, 41, 52, 56, 63, 64, 65, 108, 124, 125}}
    \cup {Hex32(255, 255, 255, 248), Hex32(16, 0, 0, 40)}

DibSizeInputs ==
    {[(Image(Base, 1, 1, 24, 0)) EXCEPT !.dib_size = d, !.hdr_len = hl, !.cut = cut] :
        d \in DibSizes, hl \in {16, 40, 124},
        cut \in {-1, 14, 17, 18, 26, 30, 54}}

\* uncompressed images of every bpp, orientation and pixel pattern; the
\* indexed ones with palettes of several lengths
PixelInputs ==
    {[(Image(k, w, h, bpp, seed)) EXCEPT !.npal = np] :
        k \in {k \in Kinds : k.hdr_len \in {12, 40}},
        w \in Dims, h \in SignedDims, bpp \in {1, 2, 4, 8}, seed \in 0..MaxSeed,
        np \in {0, 1, 2, 4}}
    \cup
    {Image(Base, w, h, bpp, seed) :
        w \in Dims, h \in SignedDims, bpp \in {16, 24, 32}, seed \in 0..MaxSeed}

\* every prefix of some uncompressed images
PrefixInputs ==
    {[(Image(Base, MaxDim, MaxDim, bpp, 0)) EXCEPT !.npal = 2, !.cut = cut] :
        bpp \in Bpps, cut \in 0..(14 + 40 + 8 + 8 * MaxDim)}

\* widths and heights at the ends of the 32-bit range, with little data
BigWords ==
    {Hex32(127, 255, 255, 255), Hex32(85, 85, 85, 86), Hex32(64, 0, 0, 0),
     Hex32(64, 0, 0, 1), Hex32(32, 0, 0, 0), Hex32(16, 0, 0, 0),
     Hex32(8, 0, 0, 0), Hex32(0, 1, 0, 0), Hex32(128, 0, 0, 1)}

BigInputs ==
    {[Base EXCEPT !.width = w, !.height = h, !.bpp = bpp, !.npal = 2,
                  !.data = Pattern(0, len)] :
        w \in BigWords \cup {U32(1)},
        h \in {U32(1), U32(2), I32(-1), Hex32(128, 0, 0, 0), Hex32(127, 255, 255, 255)},
        bpp \in Bpps, len \in {0, 8}}

\* RLE streams: up to MaxRleTokens codes (runs, escapes, deltas, absolute
\* runs) in a row, and the same streams with their last bytes missing
RleTokens ==
    {<<1, 1>>, <<2, 33>>, <<3, 0>>, <<0, 0>>, <<0, 1>>, <<0, 2, 1, 0>>,
     <<0, 2, 0, 1>>, <<0, 2, 3, 3>>, <<0, 3, 1, 0, 33, 0>>, <<0, 4, 1, 33>>}

RECURSIVE TokenStreams(_)
TokenStreams(k) ==
    IF k = 0 THEN {<<>>}
    ELSE LET shorter == TokenStreams(k - 1) IN
         shorter \cup {s \o tk : s \in shorter, tk \in RleTokens}

CutShort(s) == IF s = <<>> THEN s ELSE SubSeq(s, 1, Len(s) - 1)

RleStreams ==
    LET full == TokenStreams(MaxRleTokens) IN
    full \cup {CutShort(s) : s \in full} \cup {CutShort(CutShort(s)) : s \in full}

RleImage(w, h, bpp, np, d) ==
    [Base EXCEPT !.width = w, !.height = h, !.bpp = bpp,
                 !.compression = IF bpp = 8 THEN BI_RLE8 ELSE BI_RLE4,
                 !.npal = np, !.data = d]

RleInputs ==
    {RleImage(I32(MaxDim), I32(h), bpp, 2, d) :
        h \in {MaxDim, -MaxDim}, bpp \in {4, 8}, d \in RleStreams}
    \cup
    {RleImage(I32(w), I32(h), bpp, np, d) :
        w \in {1, MaxDim + 1}, h \in {1, -1}, bpp \in {4, 8}, np \in {0, 1, 3},
        d \in {<<0, 3, 0, 1, 0, 0, 0, 1>>, <<2, 1, 0, 0, 2, 0, 0, 0, 0, 1>>,
               <<3, 33>>, <<0, 2, 1, 0, 1, 2>>}}
    \cup
    {RleImage(w, I32(1), bpp, 2, <<1, 1, 0, 1>>) : w \in BigWords, bpp \in {4, 8}}

\* the run value that selects palette entry idx in every pixel of a run: the
\* index itself at 8 bpp, the index in both nibbles at 4 bpp
RunValue(bpp, idx) == IF bpp = 8 THEN idx ELSE 16 * idx + idx

\* the conventional encoding of an image w pixels wide: for each row one run
\* of w pixels of the row's palette index and an end-of-line escape, then
\* end-of-bitmap after the last row
RECURSIVE ConventionalStream(_, _, _)
ConventionalStream(w, bpp, idxs) ==
    IF idxs = <<>> THEN <<0, 1>>
    ELSE <<w, RunValue(bpp, Head(idxs)), 0, 0>>
         \o ConventionalStream(w, bpp, Tail(idxs))

RowIndexes(h) == {Tuple(f) : f \in [1..h -> {0, 1}]}

ConventionalInputs ==
    {RleImage(I32(w), I32(sgn * h), bpp, 2, ConventionalStream(w, bpp, idxs)) :
        w \in 1..MaxDim, h \in {MaxDim}, sgn \in {1, -1}, bpp \in {4, 8},
        idxs \in RowIndexes(MaxDim)}
    \cup
    {RleImage(I32(w), I32(1), bpp, 2, ConventionalStream(w, bpp, <<1>>)) :
        w \in 1..MaxDim, bpp \in {4, 8}}

\* channel masks (r, g, b, a) for the 16- and 32-bpp images
Masks565 ==
    <<Hex32(0, 0, 248, 0), Hex32(0, 0, 7, 224), Hex32(0, 0, 0, 31), U32(0)>>

MaskSets ==
    {Masks565,
     <<Hex32(0, 0, 124, 0), Hex32(0, 0, 3, 224), Hex32(0, 0, 0, 31), U32(0)>>,
     <<Hex32(0, 255, 0, 0), Hex32(0, 0, 255, 0), Hex32(0, 0, 0, 255), Hex32(255, 0, 0, 0)>>,
     <<Hex32(0, 255, 0, 0), Hex32(0, 0, 255, 0), Hex32(0, 0, 0, 255), U32(0)>>,
     <<Hex32(0, 0, 0, 255), Hex32(0, 0, 255, 0), Hex32(0, 255, 0, 0), U32(0)>>,
     <<Hex32(0, 0, 0, 255), Hex32(0, 0, 255, 0), Hex32(0, 255, 0, 0), Hex32(255, 0, 0, 0)>>,
     <<Hex32(63, 240, 0, 0), Hex32(0, 15, 252, 0), Hex32(0, 0, 3, 255), Hex32(192, 0, 0, 0)>>,
     <<Hex32(0, 255, 0, 0), Hex32(0, 0, 255, 0), Hex32(0, 0, 0, 255), Hex32(15, 0, 0, 0)>>,
     <<Hex32(0, 255, 0, 0), Hex32(0, 0, 255, 0), Hex32(0, 0, 0, 255), Hex32(128, 0, 0, 0)>>}

\* header layouts that can carry masks: the 40-byte header alone, with 12
\* and with 16 mask bytes behind it, and the 52-, 56- and 108-byte headers
MaskLayouts ==
    {[k EXCEPT !.trail = tr] : k \in {k \in Kinds : k.hdr_len = 40}, tr \in {0, 12, 16}}
    \cup {k \in Kinds : k.hdr_len \in {52, 56, 108}}

BitfieldImage(k, w, h, bpp, c, ms, seed) ==
    [k EXCEPT !.width = I32(w), !.height = I32(h), !.bpp = bpp,
              !.compression = c, !.masks = ms,
              !.data = IF seed < 0
                       THEN Tuple([j \in 1..(StrideOf(w, bpp) * MaxDim) |-> 255])
                       ELSE Pattern(seed, StrideOf(w, bpp) * MaxDim)]

BitfieldInputs ==
    {BitfieldImage(k, wh[1], wh[2], bpp, c, ms, seed) :
        k \in MaskLayouts, wh \in {<<1, 1>>, <<MaxDim, -MaxDim>>}, bpp \in {16, 32},
        c \in {BI_BITFIELDS, BI_ALPHABITFIELDS}, ms \in MaskSets, seed \in {-1, 0}}
    \cup
    {BitfieldImage(k, wh[1], wh[2], bpp, BI_RGB, Masks565, seed) :
        k \in MaskLayouts, wh \in {<<1, 1>>, <<MaxDim, -MaxDim>>}, bpp \in {16, 32},
        seed \in {-1, 0}}

\* a V5 header with an embedded profile inside or outside the buffer
ProfileInputs ==
    {[(Image([Base EXCEPT !.dib_size = U32(124), !.hdr_len = 124], 1, 1, 24, 0))
        EXCEPT !.masks = <<cs, U32(0), U32(0), U32(0)>>, !.intent = U32(it),
               !.profile_data = pd, !.profile_size = ps] :
        cs \in {PROFILE_EMBEDDED, LCS_sRGB}, it \in {0, 1, 2, 4, 8},
        pd \in {U32(0), U32(124), U32(128), Hex32(255, 255, 255, 255)},
        ps \in {U32(0), U32(4), U32(5), Hex32(255, 255, 255, 255)}}

Inputs ==
    DispatchInputs \cup FieldInputs \cup DibSizeInputs \cup PixelInputs
    \cup PrefixInputs \cup BigInputs \cup RleInputs \cup BitfieldInputs
    \cup ProfileInputs \cup ConventionalInputs

Buffers == {Bmp(f) : f \in Inputs}

Init ==
    /\ p_ \in Buffers
    /\ pc = State0.pc
    /\ err = State0.err
    /\ m = State0.m
    /\ palette = State0.palette
    /\ pix_size = State0.pix_size
    /\ img = State0.img
    /\ path = State0.path
    /\ rd = State0.rd
    /\ src_end = State0.src_end
    /\ ub = State0.ub
    /\ rle = State0.rle

Next ==
    \/ ParseFileHeader
    \/ ParseDibHeader
    \/ ValidateFields
    \/ ReadPalette
    \/ Dispatch
    \/ DecodeIndexedUncompressed
    \/ DecodeBgr24
    \/ DecodeBitfields
    \/ ExposeEmbeddedStream
    \/ DecodeRle8Begin
    \/ DecodeRle8Step
    \/ DecodeRle4Begin
    \/ DecodeRle4Step

Spec == Init /\ [][Next]_vars

\* parse is one sequential call that runs to its return or throw: weak
\* fairness of Next.  A step of Next is enabled exactly while the call has not
\* returned, and it changes pc or advances rle.i, so WF_vars(Next) is written
\* with ENABLED <<Next>>_vars spelled out as pc \notin Returned.
FairSpec ==
    /\ Spec
    /\ \/ []<>(pc \in Returned)
       \/ []<><<Next>>_vars

(* ---------------------------------------------------------------------- *)
(* Properties of parse                                                    *)
(* ---------------------------------------------------------------------- *)

\* parse returned an Image
Decoded == pc = "done"

\* parse threw the ParseError with this message
Failed(msg) == pc = "error" /\ err = msg

SupportedBpps == {1, 2, 4, 8, 16, 24, 32}

UncompressedPaths == {"indexed", "bgr24", "bitfields"}

bytes_per_pixel(format) == IF format = "BGRA8" THEN 4 ELSE 3

\* C1: whenever parse returns an Image in a normalized format (BGRA8 or
\* BGR8), the length of Image.pixels is width x abs(height) x
\* bytes_per_pixel(format), the width being the header's signed width (so
\* it is positive), 4 bytes for BGRA8 and 3 for BGR8.
C1_PixelLength ==
    Decoded /\ img.format \in {"BGRA8", "BGR8"} =>
        /\ ~IsNeg(m.width)
        /\ img.pixels_len =
               WMul(WMul(Conv(m.width, 8), abs_height(m)),
                    U64(bytes_per_pixel(img.format)))

\* C2: on the uncompressed decode paths (indexed, 24-bpp packed, 16/32-bpp
\* bitfield) the decoder either throws or every source byte it reads lies
\* inside the pixel region [off_bits, off_bits + pixel_bytes): nothing is
\* read outside the buffer, whatever the width, height and buffer length.
C2_ReadsInsidePixelRegion ==
    path \in UncompressedPaths => ~ub /\ WLe(src_end, U64(pix_size))

\* C3: every Image parse returns has width > 0, abs(height) > 0,
\* planes = 1 and bpp in {1,2,4,8,16,24,32}: a header with a negative width
\* or with planes other than 1 is rejected, never decoded.
C3_ValidatedMetadata ==
    Decoded =>
        /\ ~IsNeg(m.width) /\ ~IsZero(m.width)
        /\ ~IsZero(abs_height(m))
        /\ m.planes = 1
        /\ m.bpp \in SupportedBpps


\* the dispatch table: the decode path of (bpp, compression), "" for the
\* pairs without one
TablePath(bpp, c) ==
    IF c \in {BI_JPEG, BI_PNG} THEN "embedded"
    ELSE IF c = BI_RLE8 THEN (IF bpp = 8 THEN "rle8" ELSE "")
    ELSE IF c = BI_RLE4 THEN (IF bpp = 4 THEN "rle4" ELSE "")
    ELSE IF c = BI_RGB
    THEN (IF bpp \in {1, 2, 4, 8} THEN "indexed"
          ELSE IF bpp = 24 THEN "bgr24" ELSE "bitfields")
    ELSE IF c \in {BI_BITFIELDS, BI_ALPHABITFIELDS} /\ bpp \in {16, 32}
    THEN "bitfields"
    ELSE ""

UnsupportedCompression ==
    {"Unsupported compression for indexed BMP", "Unsupported compression for 16bpp",
     "Unsupported compression for 24bpp", "Unsupported compression for 32bpp"}

\* C4: when parse reaches its switch with a validated header (bpp in
\* {1,2,4,8,16,24,32}, pixel offset inside the buffer), the decoder it
\* calls is the one the dispatch table gives for (bpp, compression):
\* indexed, RLE8 only at 8 bpp, RLE4 only at 4 bpp, bitfield at 16/32 bpp
\* for BI_RGB/BI_BITFIELDS/BI_ALPHABITFIELDS, packed for 24-bpp BI_RGB,
\* passthrough for BI_JPEG/BI_PNG; for every other pair it throws an
\* unsupported-compression error and no decoder runs.
C4_DispatchTable ==
    [][pc = "dispatch" /\ m.bpp \in SupportedBpps
         /\ WLe(m.file_offset_pixels, U64(n_))
       => LET t == TablePath(m.bpp, m.compression) IN
          IF t = ""
          THEN pc' = "error" /\ err' \in UnsupportedCompression /\ path' = ""
          ELSE pc' = t /\ path' = t /\ err' = ""]_vars

\* BI_BITFIELDS on a 24-bpp header was refused
C4_Witness ==
    /\ pc = "error" /\ err = "Unsupported compression for 24bpp"
    /\ m.bpp = 24 /\ m.compression = BI_BITFIELDS

\* the file header was accepted and the buffer holds a DIB header size
FileHeaderAccepted ==
    /\ n_ >= 18
    /\ p_[1] = 66 /\ p_[2] = 77
    /\ WLe(le32(p_, 10), U64(n_))

DibSizeRefused ==
    /\ pc \notin {"file_header", "dib_header"}
    /\ FileHeaderAccepted
    /\ ~(Small(le32(p_, 14)) /\ Val(le32(p_, 14)) \in {12, 16, 40, 52, 56, 64, 108, 124})

\* C5 as stated: with an accepted file header and a DIB header size outside
\* {12, 16, 40, 52, 56, 64, 108, 124}, parse fails with the
\* unsupported-DIB error whatever the buffer length.
C5_AlwaysUnsupportedDib ==
    DibSizeRefused => Failed("Unsupported or corrupt DIB header size")

\* C5 amended: with an accepted file header and a DIB header size d outside
\* {12, 16, 40, 52, 56, 64, 108, 124}, parse returns no Image: it fails
\* with the unsupported-DIB error when (d + 14) mod 2^32 is at most the
\* buffer length, and with the truncated-DIB-header error otherwise.
C5_UnsupportedOrTruncatedDib ==
    DibSizeRefused =>
        IF WLe(WAdd(le32(p_, 14), U32(14)), U64(n_))
        THEN Failed("Unsupported or corrupt DIB header size")
        ELSE Failed("Truncated DIB header")

\* a size between the OS/2 v2 sizes 16 and 64 was refused as unsupported
C5_Witness ==
    /\ DibSizeRefused
    /\ le32(p_, 14) = U32(41)
    /\ Failed("Unsupported or corrupt DIB header size")


\* the buffer with the sign of the header height changed: the 16-bit height
\* of the 12-byte header, the 32-bit height of the others
FlipHeight(p) ==
    LET core == le32(p, 14) = U32(12)
        off == IF core THEN 14 + 6 ELSE 14 + 8
        len == IF core THEN 2 ELSE 4
        neg == WNeg(SubSeq(p, off + 1, off + len))
    IN Tuple([k \in 1..Len(p) |->
                 IF k > off /\ k <= off + len THEN neg[k - off] ELSE p[k]])

\* row y of a pixel buffer of H rows
RowOf(pixels, H, y) ==
    LET len == Len(pixels) \div H IN SubSeq(pixels, y * len + 1, (y + 1) * len)

\* C6 as stated: two inputs that differ only in the sign of the header
\* height decode to pixel buffers that are identical byte for byte.
C6_SameBytesEitherWay ==
    Decoded /\ ~ub =>
        LET other == parse(FlipHeight(p_)) IN
        other.pc = "done" => other.img.pixels = img.pixels

\* C6 amended: two inputs that differ only in the sign of the header height
\* both decode, to the same format, and their pixel buffers are vertical
\* mirrors of each other: row r of one is row abs(height) - 1 - r of the
\* other.  The BI_JPEG/BI_PNG passthrough, which has no rows, gives
\* identical buffers.
C6_MirroredRows ==
    Decoded /\ ~ub =>
        LET other == parse(FlipHeight(p_))
            H == Val(abs_height(m))
        IN /\ other.pc = "done"
           /\ other.img.format = img.format
           /\ Len(other.img.pixels) = Len(img.pixels)
           /\ IF path = "embedded" THEN other.img.pixels = img.pixels
              ELSE \A r \in 0..(H - 1) :
                      RowOf(other.img.pixels, H, r) = RowOf(img.pixels, H, H - 1 - r)

\* a decoded image of two rows that differ
C6_Witness ==
    /\ Decoded /\ ~ub /\ path \in {"indexed", "bgr24", "bitfields", "rle8"}
    /\ abs_height(m) = U32(2)
    /\ RowOf(img.pixels, 2, 0) # RowOf(img.pixels, 2, 1)

IndexedPaths == {"indexed", "rle8", "rle4"}

\* the 4 bytes of output pixel q
PixelOf(pixels, q) == SubSeq(pixels, 4 * q + 1, 4 * q + 4)

EntryBytes(pe) == <<pe.b, pe.g, pe.r, pe.a>>

PaletteColours == {EntryBytes(palette[k]) : k \in 1..Len(palette)}

\* the index stored for pixel (x, row) of an uncompressed indexed image,
\* most significant bits first
SourceIndex(x, row) ==
    LET bpp == m.bpp
        stride == 4 * ((Val(abs_width(m)) * bpp + 31) \div 32)
        byte == p_[Val(m.file_offset_pixels) + row * stride + (x * bpp) \div 8 + 1]
    IN (byte \div Pow2(8 - bpp - ((x * bpp) % 8))) % Pow2(bpp)

\* C7 as stated: every 4-byte pixel of a decoded indexed image (uncompressed,
\* RLE8 or RLE4, also when the RLE stream ends early or skips pixels) is the
\* (b,g,r,a) of some palette entry.
C7_EveryPixelFromPalette ==
    Decoded /\ ~ub /\ path \in IndexedPaths =>
        \A q \in 0..(Len(img.pixels) \div 4 - 1) :
            PixelOf(img.pixels, q) \in PaletteColours

\* C7 amended: in a decoded indexed image every pixel the decoder wrote is
\* the (b,g,r,a) of a palette entry (for an uncompressed image: the entry
\* of the source index, or entry 0 when the index is >= the palette
\* length), and every pixel an RLE stream left unwritten (it ended early or
\* skipped the pixel with a delta or end-of-line escape) is (0,0,0,0).
C7_WrittenPixelsFromPalette ==
    Decoded /\ ~ub /\ path \in IndexedPaths =>
        LET W == Val(abs_width(m))
            H == Val(abs_height(m))
        IN \A q \in 0..(W * H - 1) :
            IF path = "indexed"
            THEN LET idx == SourceIndex(q % W, IF IsNeg(m.height) THEN q \div W
                                                ELSE H - 1 - (q \div W))
                 IN PixelOf(img.pixels, q) =
                        EntryBytes(palette[IF idx >= Len(palette) THEN 1 ELSE idx + 1])
            ELSE IF <<q % W, q \div W>> \in rle.wr
            THEN PixelOf(img.pixels, q) \in PaletteColours
            ELSE PixelOf(img.pixels, q) = <<0, 0, 0, 0>>

\* an RLE image with a written and an unwritten pixel
C7_Witness ==
    /\ Decoded /\ path \in {"rle8", "rle4"}
    /\ rle.wr # {}
    /\ \E q \in 0..(Len(img.pixels) \div 4 - 1) :
          /\ <<q % RleW(Cur), q \div RleW(Cur)>> \notin rle.wr
          /\ PixelOf(img.pixels, q) \notin PaletteColours


\* C8: for the width and bpp of every header that reaches an uncompressed
\* decoder (bpp in {1,2,4,8,16,24,32}, any 32-bit width),
\* row_stride_aligned(width, bpp) is a multiple of 4 and is at least
\* ceil(width x bpp / 8).
C8_StrideCoversRow ==
    pc \in UncompressedPaths =>
        LET W == abs_width(m)
            stride == row_stride_aligned(W, m.bpp)
            row_bytes == WShr(WAdd(WMul(Conv(W, 8), U64(m.bpp)), U64(7)), 3)
        IN /\ stride[1] % 4 = 0
           /\ WLe(row_bytes, Conv(stride, 8))

\* C9: a 16-bpp image is decoded to BGRA8 with every channel bit-replicated
\* to 8 bits: with the BI_BITFIELDS masks R=0xF800, G=0x07E0, B=0x001F, A=0
\* and with the default 5-5-5 masks of BI_RGB, a source pixel whose channels
\* are all ones (0xFFFF) gives the output bytes FF FF FF FF.
C9_SixteenBppReplicated ==
    Decoded /\ ~ub /\ path = "bitfields" /\ m.bpp = 16 =>
        /\ img.format = "BGRA8"
        /\ LET off == Val(m.file_offset_pixels) IN
           (/\ m.masks \in {Mask555, [r |-> Masks565[1], g |-> Masks565[2],
                                      b |-> Masks565[3], a |-> Masks565[4]]}
            /\ abs_height(m) = U32(1)
            /\ p_[off + 1] = 255 /\ p_[off + 2] = 255)
           => PixelOf(img.pixels, 0) = <<255, 255, 255, 255>>

\* C10: an input whose compression is BI_JPEG or BI_PNG is not refused for
\* its bpp, whatever the bpp field holds (0 and values outside
\* {1,2,4,8,16,24,32} included), and the Image returned has format
\* RawBitfields, all-zero raw_masks, raw_bits_per_pixel 0 and the bytes of
\* the pixel region as its pixels.
C10_EmbeddedAtAnyBpp ==
    m.compression \in {BI_JPEG, BI_PNG} =>
        /\ ~Failed("Invalid bits-per-pixel")
        /\ ~Failed("Unsupported bits-per-pixel")
        /\ Decoded =>
              /\ img.format = "RawBitfields"
              /\ img.raw_masks = ZeroMasks
              /\ img.raw_bits_per_pixel = 0
              /\ img.pixels = SubSeq(p_, Val(m.file_offset_pixels) + 1,
                                     Val(m.file_offset_pixels) + pix_size)


\* the masks decode_bitfields works with: the header's (or the defaults of
\* BI_RGB) when there are any, 8-8-8-8 otherwise
SourceMasks == IF m.has_masks THEN m.masks ELSE Mask8888

\* the lossless-8-bit test of the masks: R, G, B on the bytes 2, 1, 0 with
\* no alpha or alpha on byte 3, or R, G, B on the bytes 0, 1, 2
Lossless8(masks) ==
    \/ /\ masks.r = Hex32(0, 255, 0, 0) /\ masks.g = Hex32(0, 0, 255, 0)
       /\ masks.b = Hex32(0, 0, 0, 255)
       /\ masks.a \in {U32(0), Hex32(255, 0, 0, 0)}
    \/ /\ masks.r = Hex32(0, 0, 0, 255) /\ masks.g = Hex32(0, 0, 255, 0)
       /\ masks.b = Hex32(0, 255, 0, 0)

\* C11: a 16/32-bpp bitfield image is returned as BGRA8 exactly when its
\* masks are R=0x00FF0000, G=0x0000FF00, B=0x000000FF with alpha mask 0 or
\* 0xFF000000, or the byte-mirror of R, G, B; with any other masks (the
\* standard R, G, B with another alpha mask included) it is returned as
\* RawBitfields with raw_masks equal to the four source masks.
C11_Lossless8Test ==
    Decoded /\ path = "bitfields" =>
        IF Lossless8(SourceMasks) THEN img.format = "BGRA8"
        ELSE img.format = "RawBitfields" /\ img.raw_masks = SourceMasks

\* the bytes of the source row that output row y shows, without the padding
SourceRowBytes(y) ==
    LET W == Val(abs_width(m))
        H == Val(abs_height(m))
        bytes == m.bpp \div 8
        stride == 4 * ((W * m.bpp + 31) \div 32)
        row == IF IsNeg(m.height) THEN y ELSE H - 1 - y
        at == Val(m.file_offset_pixels) + row * stride
    IN SubSeq(p_, at + 1, at + W * bytes)

\* C12 as stated: every Image returned with format RawBitfields has
\* raw_bits_per_pixel in {16, 32} and a pixel buffer of exactly
\* width x abs(height) x (raw_bits_per_pixel / 8) bytes, each output row being
\* the first width x bytes_per_pixel bytes of a source row.
C12_EveryRawImage ==
    Decoded /\ ~ub /\ img.format = "RawBitfields" =>
        /\ img.raw_bits_per_pixel \in {16, 32}
        /\ ~IsNeg(m.width)
        /\ Len(img.pixels) =
               Val(m.width) * Val(abs_height(m)) * (img.raw_bits_per_pixel \div 8)
        /\ \A y \in 0..(Val(abs_height(m)) - 1) :
               RowOf(img.pixels, Val(abs_height(m)), y) = SourceRowBytes(y)

\* C12 amended: an Image the 16/32-bpp bitfield decoder returns with format
\* RawBitfields has raw_bits_per_pixel = bpp, in {16, 32}, and a pixel
\* buffer of exactly |width| x abs(height) x (raw_bits_per_pixel / 8) bytes,
\* each output row being the first |width| x bytes_per_pixel bytes of a
\* source row; an Image of the BI_JPEG/BI_PNG passthrough has format
\* RawBitfields too, with raw_bits_per_pixel 0 and the bytes of the pixel
\* region as they are.
C12_RawBitfieldImages ==
    Decoded /\ img.format = "RawBitfields" =>
        IF path = "embedded"
        THEN /\ img.raw_bits_per_pixel = 0
             /\ img.pixels = SubSeq(p_, Val(m.file_offset_pixels) + 1,
                                    Val(m.file_offset_pixels) + pix_size)
        ELSE /\ path = "bitfields"
             /\ img.raw_bits_per_pixel = m.bpp /\ m.bpp \in {16, 32}
             /\ img.pixels_len =
                    WMul(WMul(Conv(abs_width(m), 8), abs_height(m)),
                         U64(img.raw_bits_per_pixel \div 8))
             /\ ~ub =>
                   /\ Len(img.pixels) = Val(img.pixels_len)
                   /\ \A y \in 0..(Val(abs_height(m)) - 1) :
                          RowOf(img.pixels, Val(abs_height(m)), y) = SourceRowBytes(y)

\* a raw 16-bpp image of two rows of one pixel: each source row has two
\* bytes of padding
C12_Witness ==
    /\ Decoded /\ ~ub /\ path = "bitfields" /\ img.format = "RawBitfields"
    /\ m.bpp = 16 /\ abs_width(m) = U32(1) /\ abs_height(m) = U32(2)
    /\ Len(img.pixels) = 4


\* C13: every byte that header parsing and palette reading access (fixed
\* header fields, in-header masks, the mask bytes behind a 40-byte header,
\* the V4 and V5 fields, the embedded profile, the palette entries) lies
\* inside the buffer: the highest offset read never passes the buffer
\* length, and when the bytes are missing parse throws or skips the item.
C13_HeaderReadsInsideBuffer == rd <= n_

\* BI_BITFIELDS under a 40-byte header in a buffer too short for the 12 mask
\* bytes: the masks were skipped
C13_Witness ==
    /\ pc \notin {"file_header", "dib_header", "error"}
    /\ m.header_size = U32(40) /\ m.compression = BI_BITFIELDS
    /\ n_ < 14 + 40 + 12 /\ ~m.has_masks
    /\ rd = 14 + 40


\* a mask of w contiguous set bits, 1 <= w <= 7, at some shift
NarrowMask(mask) ==
    \E w \in 1..7 : \E sh \in 0..(32 - w) : mask = WShl(U32(Pow2(w) - 1), sh)

\* the source value of output pixel q of a 16/32-bpp image
SourceValue(q) ==
    LET W == Val(abs_width(m))
        H == Val(abs_height(m))
        bytes == m.bpp \div 8
        stride == 4 * ((W * m.bpp + 31) \div 32)
        row == IF IsNeg(m.height) THEN q \div W ELSE H - 1 - (q \div W)
        at == Val(m.file_offset_pixels) + row * stride + (q % W) * bytes
    IN IF bytes = 2 THEN U32(le16(p_, at)) ELSE le32(p_, at)

\* C14: on the BGRA8 path, for an alpha mask of w contiguous set bits with
\* 1 <= w <= 7 (at any shift), bit_extract_norm gives 0xFF for a pixel whose
\* alpha component is all ones (value & mask = mask) and 0x00 for one whose
\* alpha component is zero: the normalisation to 8 bits is full-range.
C14_FullRangeBelow8Bits ==
    (Decoded /\ ~ub /\ path = "bitfields" /\ img.format = "BGRA8"
       /\ NarrowMask(SourceMasks.a)) =>
        \A q \in 0..(Len(img.pixels) \div 4 - 1) :
            LET comp == WAnd(SourceValue(q), SourceMasks.a)
                A == PixelOf(img.pixels, q)[4]
            IN /\ comp = SourceMasks.a => A = 255
               /\ IsZero(comp) => A = 0


RlePaths == {"rle8", "rle4"}

RleLoops == {"rle8_loop", "rle4_loop"}

\* the first k bytes of the pixel region
StreamStart(k) ==
    SubSeq(p_, Val(m.file_offset_pixels) + 1, Val(m.file_offset_pixels) + k)

RleIterationAdvances ==
    pc \in RleLoops =>
        /\ pc' \in {pc, "done"} /\ err' = ""
        /\ rle'.i <= pix_size
        /\ (pc' = pc => rle'.i > rle.i)

\* C16: the loop of decode_rle8 / decode_rle4 terminates and returns an
\* Image: an iteration either leaves the loop or moves the input index
\* forward, the index never passes pix_size, no iteration throws (also when
\* the stream ends inside a run, an escape, a delta or an absolute block),
\* and a decoder in its loop does return.
C16_RleTerminates ==
    /\ [][RleIterationAdvances]_vars
    /\ (pc \in RleLoops ~> pc = "done")

\* an RLE8 stream of one byte, a run count without its value, was decoded
C16_Witness ==
    /\ Decoded /\ path = "rle8" /\ pix_size = 1 /\ StreamStart(1) = <<1>>
    /\ rle.i = 1

\* C17: at every loop iteration boundary of the RLE8 and the RLE4 decoder
\* the cursor satisfies x <= width and y <= height: a delta escape adds dx
\* and dy and clamps x and y to width and height.
C17_CursorClamped ==
    path \in RlePaths /\ pc \in RleLoops \cup {"done"} =>
        rle.x <= RleW(Cur) /\ rle.y <= RleH(Cur)



\* the per-row palette indexes of the conventional stream in the pixel region,
\* if it is one
ConventionalRowsOf ==
    {idxs \in RowIndexes(RleH(Cur)) :
        StreamStart(pix_size) = ConventionalStream(RleW(Cur), m.bpp, idxs)}

\* C18: an RLE8 or RLE4 stream in the conventional encoding (each of the
\* height rows as runs of exactly width pixels followed by end-of-line, then
\* end-of-bitmap) decodes to width x height pixels, each the palette colour
\* of its row's run: the automatic row advance at x = width and the
\* end-of-line escape together move down one row only, so no row is skipped
\* or left zero-filled.
C18_ConventionalFillsImage ==
    Decoded /\ path \in RlePaths =>
        \A idxs \in ConventionalRowsOf :
            \A r \in 0..(RleH(Cur) - 1), x \in 0..(RleW(Cur) - 1) :
                LET yy == IF top_down(m) THEN r ELSE RleH(Cur) - 1 - r IN
                PixelOf(img.pixels, yy * RleW(Cur) + x)
                    = EntryBytes(palette[idxs[r + 1] + 1])

=============================================================================
